---- MODULE Spec2Model ----
(***************************************************************************)
(* webpack/webpack.local.config.js: the development overlay of the bundler *)
(* configuration.  The script loads the object exported by                 *)
(* ./webpack.base.config.js, mutates it statement by statement and exports *)
(* it.  JavaScript objects and arrays are references, so the model keeps a *)
(* heap: a sequence of objects, an address being an index into it.         *)
(***************************************************************************)
EXTENDS Integers, Sequences, FiniteSets, TLC

\* ------------------------------------------------------------------ bounds
MaxPlugins == 2   \* longest plugins array of a base configuration
MaxRules == 2     \* longest module.rules array of a base configuration
MaxEntry == 1     \* longest entry array of a base configuration
MaxApply == 2     \* how many times the script is evaluated on the same base

\* ------------------------------------------------------------ JS values
\* The value of a property that is absent (undefined): no address.
Undef == 0
\* undefined where a string is expected.
UndefStr == "<undefined>"

Arr(elems) == [kind |-> "array", elems |-> elems]
\* The fresh object a module's module.exports starts as.
EmptyObj == [kind |-> "object"]
OutputObj(pp) ==
  [kind |-> "output", publicPath |-> pp, path |-> "./assets/bundles/", filename |-> "[name].js"]
ModuleObj(r) == [kind |-> "module", rules |-> r, noParse |-> "jquery"]
ConfigObj(e, o, p, d, m) ==
  [kind |-> "config", entry |-> e, output |-> o, plugins |-> p, devtool |-> d,
   module |-> m, context |-> "/app", resolve |-> "modules:node_modules"]

\* Regular expressions: a sequence of atoms, matched from left to right.
Chr(c) == [t |-> "chr", c |-> c]
Opt(c) == [t |-> "opt", c |-> c]
Eol == [t |-> "eol", c |-> ""]

RECURSIVE MatchAt(_, _, _, _)
\* Atoms k.. of re match s from position i on.
MatchAt(re, k, s, i) ==
  IF k > Len(re) THEN TRUE
  ELSE LET a == re[k] IN
    CASE a.t = "chr" -> i <= Len(s) /\ s[i] = a.c /\ MatchAt(re, k + 1, s, i + 1)
      [] a.t = "opt" -> \/ i <= Len(s) /\ s[i] = a.c /\ MatchAt(re, k + 1, s, i + 1)
                        \/ MatchAt(re, k + 1, s, i)
      [] a.t = "eol" -> i = Len(s) + 1 /\ MatchAt(re, k + 1, s, i)

\* RegExp.prototype.test without flags: a match may start anywhere.
RegExpTest(re, s) == \E i \in 1..(Len(s) + 1) : MatchAt(re, 1, s, i)

\* ------------------------------------------------- literals of the script
NewEntry ==
  << "webpack-dev-server/client?http://localhost:3000",
     "webpack/hot/only-dev-server",
     "../assets/js/app.js" >>

DevPublicPath == "http://localhost:3000/assets/bundles/"

Plugin(ctor, args) == [ctor |-> ctor, args |-> args]
NewPlugins ==
  << Plugin("HotModuleReplacementPlugin", <<>>),
     Plugin("NoEmitOnErrorsPlugin", <<>>),
     Plugin("BundleTracker", <<[filename |-> "./webpack-stats.json"]>>) >>

DevtoolValue == "inline-source-map"

\* /\.jsx?$/
JsxTest == << Chr("."), Chr("j"), Chr("s"), Opt("x"), Eol >>
\* /node_modules/
NodeModulesRe ==
  << Chr("n"), Chr("o"), Chr("d"), Chr("e"), Chr("_"), Chr("m"),
     Chr("o"), Chr("d"), Chr("u"), Chr("l"), Chr("e"), Chr("s") >>

JsxRule_noOptional ==
  [test |-> << Chr("."), Chr("j"), Chr("s"), Eol >>, exclude |-> NodeModulesRe,
   loaders |-> << "babel-loader" >>]
JsxRule == [test |-> JsxTest, exclude |-> NodeModulesRe, loaders |-> << "babel-loader" >>]

\* ------------------------------------- base configurations (the input)
SeqsUpTo(S, n) == UNION { [1..k -> S] : k \in 0..n }

BasePluginPool ==
  { Plugin("DefinePlugin", <<>>), Plugin("HotModuleReplacementPlugin", <<>>) }
CssRule ==
  [test |-> << Chr("."), Chr("c"), Chr("s"), Chr("s"), Eol >>, exclude |-> NodeModulesRe,
   loaders |-> << "style-loader", "css-loader" >>]
BaseRulePool == { CssRule, JsxRule }
BaseEntryPool == { "./index.js", "../assets/js/app.js" }
BasePublicPaths == { UndefStr, "/static/bundles/" }
BaseDevtools == { UndefStr, "source-map" }

Absent == [has |-> FALSE, v |-> <<>>]
Present(v) == [has |-> TRUE, v |-> v]
Maybe(S) == { Absent } \cup { Present(v) : v \in S }

\* The heap webpack.base.config.js leaves behind: the configuration object
\* last, after the objects it refers to.  e, o, p: entry, output.publicPath,
\* plugins; m: module (its value: rules, itself possibly absent); d: devtool.
BaseHeap(e, o, p, m, d) ==
  LET h1 == IF e.has THEN << Arr(e.v) >> ELSE << >>
      eA == IF e.has THEN Len(h1) ELSE Undef
      h2 == IF o.has THEN Append(h1, OutputObj(o.v)) ELSE h1
      oA == IF o.has THEN Len(h2) ELSE Undef
      h3 == IF p.has THEN Append(h2, Arr(p.v)) ELSE h2
      pA == IF p.has THEN Len(h3) ELSE Undef
      hasR == m.has /\ m.v.has
      h4 == IF hasR THEN Append(h3, Arr(m.v.v)) ELSE h3
      rA == IF hasR THEN Len(h4) ELSE Undef
      h5 == IF m.has THEN Append(h4, ModuleObj(rA)) ELSE h4
      mA == IF m.has THEN Len(h5) ELSE Undef
  IN Append(h5, ConfigObj(eA, oA, pA, d, mA))

\* ------------------------------------------------------------------ state
VARIABLES
  heap,         \* the objects, by address
  pc,           \* the statement the script is at
  config,       \* var config (line 5)
  exports,      \* module.exports of webpack.local.config.js
  baseExports,  \* the exports of ./webpack.base.config.js in the require cache
  errAt,        \* the statement that threw the uncaught TypeError, or "none"
  apps,         \* completed evaluations of the script
  input,        \* the heap as the current evaluation found it
  base0         \* the heap before the first evaluation

vars == << heap, pc, config, exports, baseExports, errAt, apps, input, base0 >>

InitWith(h) ==
  /\ heap = Append(h, EmptyObj)
  /\ baseExports = Len(h)
  /\ exports = Len(h) + 1
  /\ pc = "load"
  /\ config = Undef
  /\ errAt = "none"
  /\ apps = 0
  /\ input = Append(h, EmptyObj)
  /\ base0 = Append(h, EmptyObj)

Init ==
  \E e \in Maybe(SeqsUpTo(BaseEntryPool, MaxEntry)),
     o \in Maybe(BasePublicPaths),
     p \in Maybe(SeqsUpTo(BasePluginPool, MaxPlugins)),
     m \in Maybe(Maybe(SeqsUpTo(BaseRulePool, MaxRules))),
     d \in BaseDevtools :
    InitWith(BaseHeap(e, o, p, m, d))

Throw(at) ==
  /\ pc' = "error"
  /\ errAt' = at
  /\ UNCHANGED << heap, config, exports, baseExports, apps, input, base0 >>

\* var config = require('./webpack.base.config.js')
LoadBase_clone ==
  /\ pc = "load"
  /\ heap' = Append(heap, heap[baseExports])
  /\ config' = Len(heap) + 1
  /\ input' = heap
  /\ pc' = "entry"
  /\ UNCHANGED << exports, baseExports, errAt, apps, base0 >>
LoadBase ==
  /\ pc = "load"
  /\ config' = baseExports
  /\ input' = heap
  /\ pc' = "entry"
  /\ UNCHANGED << heap, exports, baseExports, errAt, apps, base0 >>

\* config.entry = [ ... ]
SetEntry_concat ==
  /\ pc = "entry"
  /\ LET old == IF heap[config].entry = Undef THEN << >> ELSE heap[heap[config].entry].elems
         h1 == Append(heap, Arr(old \o NewEntry))
     IN heap' = [h1 EXCEPT ![config].entry = Len(h1)]
  /\ pc' = "publicPath"
  /\ UNCHANGED << config, exports, baseExports, errAt, apps, input, base0 >>
SetEntry ==
  /\ pc = "entry"
  /\ LET h1 == Append(heap, Arr(NewEntry))
     IN heap' = [h1 EXCEPT ![config].entry = Len(h1)]
  /\ pc' = "publicPath"
  /\ UNCHANGED << config, exports, baseExports, errAt, apps, input, base0 >>

\* config.output.publicPath = 'http://localhost:3000/assets/bundles/'
SetPublicPath_replaceOutput ==
  /\ pc = "publicPath"
  /\ IF heap[config].output = Undef
       THEN Throw("publicPath")
       ELSE /\ LET h1 == Append(heap, [kind |-> "output", publicPath |-> DevPublicPath,
                                        path |-> UndefStr, filename |-> UndefStr])
               IN heap' = [h1 EXCEPT ![config].output = Len(h1)]
            /\ pc' = "plugins"
            /\ UNCHANGED << config, exports, baseExports, errAt, apps, input, base0 >>
SetPublicPath_keepExisting ==
  /\ pc = "publicPath"
  /\ IF heap[config].output = Undef
       THEN Throw("publicPath")
       ELSE /\ heap' = [heap EXCEPT ![heap[config].output].publicPath =
                          IF @ = UndefStr THEN DevPublicPath ELSE @]
            /\ pc' = "plugins"
            /\ UNCHANGED << config, exports, baseExports, errAt, apps, input, base0 >>
SetPublicPath_guarded ==
  /\ pc = "publicPath"
  /\ IF heap[config].output = Undef
       THEN LET h1 == Append(heap, [kind |-> "output", publicPath |-> DevPublicPath,
                                     path |-> UndefStr, filename |-> UndefStr])
            IN heap' = [h1 EXCEPT ![config].output = Len(h1)]
       ELSE heap' = [heap EXCEPT ![heap[config].output].publicPath = DevPublicPath]
  /\ pc' = "plugins"
  /\ UNCHANGED << config, exports, baseExports, errAt, apps, input, base0 >>
SetPublicPath ==
  /\ pc = "publicPath"
  /\ IF heap[config].output = Undef
       THEN Throw("publicPath")
       ELSE /\ heap' = [heap EXCEPT ![heap[config].output].publicPath = DevPublicPath]
            /\ pc' = "plugins"
            /\ UNCHANGED << config, exports, baseExports, errAt, apps, input, base0 >>

\* config.plugins = config.plugins.concat([ ... ]): concat returns a new array
ConcatPlugins_unshift ==
  /\ pc = "plugins"
  /\ IF heap[config].plugins = Undef
       THEN Throw("plugins")
       ELSE /\ LET h1 == Append(heap, Arr(NewPlugins \o heap[heap[config].plugins].elems))
               IN heap' = [h1 EXCEPT ![config].plugins = Len(h1)]
            /\ pc' = "devtool"
            /\ UNCHANGED << config, exports, baseExports, errAt, apps, input, base0 >>
ConcatPlugins_ifMissing ==
  /\ pc = "plugins"
  /\ IF heap[config].plugins = Undef
       THEN Throw("plugins")
       ELSE /\ LET old == heap[heap[config].plugins].elems
                   has == \E i \in 1..Len(old) : old[i].ctor = "BundleTracker"
                   h1 == Append(heap, Arr(IF has THEN old ELSE old \o NewPlugins))
               IN heap' = [h1 EXCEPT ![config].plugins = Len(h1)]
            /\ pc' = "devtool"
            /\ UNCHANGED << config, exports, baseExports, errAt, apps, input, base0 >>
ConcatPlugins ==
  /\ pc = "plugins"
  /\ IF heap[config].plugins = Undef
       THEN Throw("plugins")
       ELSE /\ LET h1 == Append(heap, Arr(heap[heap[config].plugins].elems \o NewPlugins))
               IN heap' = [h1 EXCEPT ![config].plugins = Len(h1)]
            /\ pc' = "devtool"
            /\ UNCHANGED << config, exports, baseExports, errAt, apps, input, base0 >>

\* config.devtool = 'inline-source-map'
SetDevtool_keepExisting ==
  /\ pc = "devtool"
  /\ heap' = [heap EXCEPT ![config].devtool = IF @ = UndefStr THEN DevtoolValue ELSE @]
  /\ pc' = "rules"
  /\ UNCHANGED << config, exports, baseExports, errAt, apps, input, base0 >>
SetDevtool ==
  /\ pc = "devtool"
  /\ heap' = [heap EXCEPT ![config].devtool = DevtoolValue]
  /\ pc' = "rules"
  /\ UNCHANGED << config, exports, baseExports, errAt, apps, input, base0 >>

\* config.module.rules.push({ ... }): push extends the array in place
RulesMissing == heap[config].module = Undef \/ heap[heap[config].module].rules = Undef

PushRule_rollback ==
  /\ pc = "rules"
  /\ IF RulesMissing
       THEN /\ heap' = input
            /\ pc' = "error"
            /\ errAt' = "rules"
            /\ UNCHANGED << config, exports, baseExports, apps, input, base0 >>
       ELSE /\ heap' = [heap EXCEPT ![heap[heap[config].module].rules].elems = Append(@, JsxRule)]
            /\ pc' = "export"
            /\ UNCHANGED << config, exports, baseExports, errAt, apps, input, base0 >>
PushRule ==
  /\ pc = "rules"
  /\ IF RulesMissing
       THEN Throw("rules")
       ELSE /\ heap' = [heap EXCEPT ![heap[heap[config].module].rules].elems = Append(@, JsxRule)]
            /\ pc' = "export"
            /\ UNCHANGED << config, exports, baseExports, errAt, apps, input, base0 >>

\* module.exports = config
Export ==
  /\ pc = "export"
  /\ exports' = config
  /\ apps' = apps + 1
  /\ pc' = "done"
  /\ UNCHANGED << heap, config, baseExports, errAt, input, base0 >>

\* The script evaluated again in the same process (its own entry of the
\* require cache dropped, or the file loaded under a second name): the
\* module gets a fresh module.exports, and require('./webpack.base.config.js')
\* answers from the cache with the object the first evaluation mutated.
Rerun ==
  /\ pc = "done"
  /\ apps < MaxApply
  /\ heap' = Append(heap, EmptyObj)
  /\ exports' = Len(heap) + 1
  /\ config' = Undef
  /\ pc' = "load"
  /\ UNCHANGED << baseExports, errAt, apps, input, base0 >>

Next ==
  \/ LoadBase
  \/ SetEntry
  \/ SetPublicPath
  \/ ConcatPlugins
  \/ SetDevtool
  \/ PushRule
  \/ Export
  \/ Rerun

Spec == Init /\ [][Next]_vars

\* The script is synchronous and single-threaded: a statement that can run
\* does run.
FairSpec == Spec /\ WF_vars(Next)

\* ------------------------------------------------------ reading the heap
\* h[c] is a configuration with output, plugins, module and module.rules.
Valid(h, c) ==
  /\ h[c].output # Undef
  /\ h[c].plugins # Undef
  /\ h[c].module # Undef
  /\ h[h[c].module].rules # Undef

EntryOf(h, c) == h[h[c].entry].elems
PluginsOf(h, c) == h[h[c].plugins].elems
RulesOf(h, c) == h[h[h[c].module].rules].elems

EndsWith(s, suf) ==
  Len(s) >= Len(suf) /\ SubSeq(s, Len(s) - Len(suf) + 1, Len(s)) = suf
Contains(s, sub) ==
  \E i \in 1..(Len(s) - Len(sub) + 1) : SubSeq(s, i, i + Len(sub) - 1) = sub

\* File names and paths the rule's patterns are tried on.
SampleNames ==
  { << >>,
    << "j", "s" >>,
    << "j", "s", "x" >>,
    << ".", "j", "s" >>,
    << ".", "j", "s", "x" >>,
    << "a", "j", "s" >>,
    << "a", ".", "j", "s" >>,
    << "a", ".", "j", "s", "x" >>,
    << "a", ".", "j", "s", "x", "x" >>,
    << "a", ".", "j", "s", "s" >>,
    << "a", ".", "j", "x" >>,
    << "a", ".", "j", "s", "x", "." >>,
    << "a", ".", "j", "s", ".", "m", "a", "p" >>,
    << "a", ".", "j", "s", "/", "b", ".", "c", "s", "s" >>,
    << "a", ".", "c", "s", "s" >>,
    << "a", ".", "c", "s", "s", ".", "j", "s" >> }
NodeModulesName == << "n", "o", "d", "e", "_", "m", "o", "d", "u", "l", "e", "s" >>
SamplePaths ==
  { << >>,
    << "a", ".", "j", "s" >>,
    NodeModulesName,
    << "/", "a", "/" >> \o NodeModulesName \o << "/", "b", ".", "j", "s" >>,
    << "n", "o", "d", "e" >> \o NodeModulesName,
    << "n", "o", "d", "e", "_", "m", "o", "d", "u", "l", "e" >>,
    << "n", "o", "d", "e", "m", "o", "d", "u", "l", "e", "s" >>,
    << "n", "o", "d", "e", "_", "/", "m", "o", "d", "u", "l", "e", "s" >>,
    << "_", "m", "o", "d", "u", "l", "e", "s", "/", "n", "o", "d", "e" >> }

\* --------------------------------------------------------------- claims

\* C1: the overlay leaves every field it does not touch unchanged: every
\* top-level key other than entry, output, plugins, devtool and module, and
\* inside output and module every field other than publicPath and rules,
\* has in the exported configuration the value it had in the input.
C1_Frame ==
  (pc = "done" /\ Valid(input, baseExports)) =>
    LET i == input[baseExports]
        o == heap[exports]
    IN /\ \A k \in DOMAIN i \ { "entry", "output", "plugins", "devtool", "module" } :
            k \in DOMAIN o /\ o[k] = i[k]
       /\ \A k \in DOMAIN input[i.output] \ { "publicPath" } :
            heap[o.output][k] = input[i.output][k]
       /\ \A k \in DOMAIN input[i.module] \ { "rules" } :
            heap[o.module][k] = input[i.module][k]
C1_Witness ==
  /\ pc = "done"
  /\ apps = 1
  /\ input[input[baseExports].output].publicPath = "/static/bundles/"
  /\ heap[heap[exports].output].path = "./assets/bundles/"
  /\ heap[heap[exports].module].noParse = "jquery"
  /\ heap[exports].context = "/app"

\* C2: with n input plugins the exported plugins has length n + 3, starts
\* with the n input plugins in their order, and ends with the
\* hot-module-replacement plugin, the no-emit-on-errors plugin and the bundle
\* tracker configured with filename './webpack-stats.json', in this order.
C2_PluginsAppended ==
  (pc = "done" /\ Valid(input, baseExports)) =>
    LET P0 == PluginsOf(input, baseExports)
        P == PluginsOf(heap, exports)
        n == Len(P0)
    IN /\ Len(P) = n + 3
       /\ SubSeq(P, 1, n) = P0
       /\ P[n + 1] = [ctor |-> "HotModuleReplacementPlugin", args |-> << >>]
       /\ P[n + 2] = [ctor |-> "NoEmitOnErrorsPlugin", args |-> << >>]
       /\ P[n + 3] = [ctor |-> "BundleTracker",
                      args |-> << [filename |-> "./webpack-stats.json"] >>]
C2_Witness ==
  /\ pc = "done"
  /\ Len(PluginsOf(input, baseExports)) = 2
  /\ PluginsOf(input, baseExports)[1].ctor = "DefinePlugin"
  /\ PluginsOf(input, baseExports)[2].ctor = "HotModuleReplacementPlugin"
  /\ Len(PluginsOf(heap, exports)) = 5

\* C3: whatever the entry of the input, the exported entry is exactly the
\* dev-server client, the hot-reload runtime and the application entry, in
\* this order.
C3_EntryReplaced ==
  (pc = "done" /\ Valid(input, baseExports)) =>
    LET E == EntryOf(heap, exports)
    IN /\ Len(E) = 3
       /\ E[1] = "webpack-dev-server/client?http://localhost:3000"
       /\ E[2] = "webpack/hot/only-dev-server"
       /\ E[3] = "../assets/js/app.js"
C3_Witness ==
  /\ pc = "done"
  /\ input[baseExports].entry # Undef
  /\ EntryOf(input, baseExports) = << "./index.js" >>
  /\ \A i \in 1..Len(EntryOf(heap, exports)) : EntryOf(heap, exports)[i] # "./index.js"

\* C4: with m input rules the exported module.rules has length m + 1, starts
\* with the m input rules in their order, and its last element matches file
\* names ending in .js or .jsx, excludes paths containing node_modules and
\* applies the loaders ['babel-loader'].
C4_RuleAppended ==
  (pc = "done" /\ Valid(input, baseExports)) =>
    LET R0 == RulesOf(input, baseExports)
        R == RulesOf(heap, exports)
        m == Len(R0)
    IN /\ Len(R) = m + 1
       /\ SubSeq(R, 1, m) = R0
       /\ DOMAIN R[m + 1] = { "test", "exclude", "loaders" }
       /\ R[m + 1].loaders = << "babel-loader" >>
       /\ \A f \in SampleNames :
            RegExpTest(R[m + 1].test, f) <=>
              (EndsWith(f, << ".", "j", "s" >>) \/ EndsWith(f, << ".", "j", "s", "x" >>))
       /\ \A q \in SamplePaths :
            RegExpTest(R[m + 1].exclude, q) <=> Contains(q, NodeModulesName)
C4_Witness ==
  /\ pc = "done"
  /\ Len(RulesOf(input, baseExports)) = 2
  /\ RulesOf(input, baseExports)[1].loaders = << "style-loader", "css-loader" >>
  /\ Len(RulesOf(heap, exports)) = 3
  /\ RegExpTest(RulesOf(heap, exports)[3].test, << "a", ".", "j", "s", "x" >>)

\* C5: the exported output.publicPath is the dev-server URL whatever the
\* input's output.publicPath was, absent included.
C5_PublicPath ==
  (pc = "done" /\ Valid(input, baseExports)) =>
    heap[heap[exports].output].publicPath = "http://localhost:3000/assets/bundles/"
C5_Witness ==
  /\ pc = "done"
  /\ apps = 1
  /\ input[input[baseExports].output].publicPath = "/static/bundles/"
  /\ heap[heap[exports].output].publicPath = "http://localhost:3000/assets/bundles/"

\* C6: the overlay is not idempotent: after k evaluations on a base with n
\* plugins and m rules, plugins has length n + 3k and module.rules length
\* m + k, the base's elements first and every evaluation's appended
\* elements after them, in order.
C6_NotIdempotent ==
  (pc = "done" /\ Valid(base0, baseExports)) =>
    LET P0 == PluginsOf(base0, baseExports)
        P == PluginsOf(heap, exports)
        n == Len(P0)
        R0 == RulesOf(base0, baseExports)
        R == RulesOf(heap, exports)
        m == Len(R0)
    IN /\ Len(P) = n + 3 * apps
       /\ SubSeq(P, 1, n) = P0
       /\ \A j \in 0..(apps - 1) :
            /\ P[n + 3 * j + 1].ctor = "HotModuleReplacementPlugin"
            /\ P[n + 3 * j + 2].ctor = "NoEmitOnErrorsPlugin"
            /\ P[n + 3 * j + 3].ctor = "BundleTracker"
       /\ Len(R) = m + apps
       /\ SubSeq(R, 1, m) = R0
       /\ \A j \in 1..apps : R[m + j].loaders = << "babel-loader" >>
       /\ apps >= 2 => (Len(P) > n + 3 /\ Len(R) > m + 1)
C6_Witness ==
  /\ pc = "done"
  /\ apps = 2
  /\ Len(PluginsOf(heap, exports)) = Len(PluginsOf(base0, baseExports)) + 6
  /\ Len(RulesOf(heap, exports)) = Len(RulesOf(base0, baseExports)) + 2

\* C7: a base configuration lacking output, plugins, module or module.rules
\* yields no configuration: the script stops with the TypeError of the first
\* statement that dereferences the missing field, never runs past it, and
\* module.exports stays the empty object it started as.
FirstFault ==
  IF input[baseExports].output = Undef THEN "publicPath"
  ELSE IF input[baseExports].plugins = Undef THEN "plugins"
  ELSE "rules"
StepsUpTo(at) ==
  CASE at = "publicPath" -> { "load", "entry", "publicPath" }
    [] at = "plugins" -> { "load", "entry", "publicPath", "plugins" }
    [] at = "rules" -> { "load", "entry", "publicPath", "plugins", "devtool", "rules" }
C7_NoExport ==
  /\ ~Valid(input, baseExports) =>
       /\ pc \in StepsUpTo(FirstFault) \cup { "error" }
       /\ pc = "error" => errAt = FirstFault
       /\ heap[exports].kind = "object"
       /\ exports # baseExports
  /\ pc = "error" => ~Valid(input, baseExports)
C7_MalformedFails ==
  /\ []C7_NoExport
  /\ ~Valid(input, baseExports) ~> (pc = "error" /\ errAt = FirstFault)
C7_Witness ==
  /\ pc = "error"
  /\ errAt = "plugins"
  /\ input[baseExports].plugins = Undef
  /\ input[baseExports].module = Undef
  /\ heap[exports] = EmptyObj

\* C8: the exported value is the base configuration object itself, mutated
\* in place: whoever holds the base module's exports sees the new entry,
\* publicPath and devtool and the extended plugins and rules.
C8_SameObject ==
  pc = "done" =>
    /\ exports = baseExports
    /\ config = baseExports
    /\ EntryOf(heap, baseExports)[1] = "webpack-dev-server/client?http://localhost:3000"
    /\ heap[heap[baseExports].output].publicPath = "http://localhost:3000/assets/bundles/"
    /\ heap[baseExports].devtool = "inline-source-map"
    /\ Len(PluginsOf(heap, baseExports)) = Len(PluginsOf(input, baseExports)) + 3
    /\ Len(RulesOf(heap, baseExports)) = Len(RulesOf(input, baseExports)) + 1
C8_Witness ==
  /\ pc = "done"
  /\ apps = 1
  /\ exports = baseExports
  /\ heap[baseExports] # input[baseExports]
  /\ heap[baseExports].devtool = "inline-source-map"

\* C9: the exported devtool is 'inline-source-map' whatever the input's
\* devtool was, absent included.
C9_Devtool ==
  (pc = "done" /\ Valid(input, baseExports)) =>
    heap[exports].devtool = "inline-source-map"
C9_Witness ==
  /\ pc = "done"
  /\ apps = 1
  /\ input[baseExports].devtool = "source-map"
  /\ heap[exports].devtool = "inline-source-map"

\* C10: a failure is not rolled back.  The steps run in the order entry,
\* output.publicPath, plugins, devtool, module.rules; when one throws, the
\* base object shows the effect of every earlier step and of no later one.
Untouched(field) == heap[baseExports][field] = input[baseExports][field]
C10_NotAtomic ==
  pc = "error" =>
    LET c == heap[baseExports]
        i == input[baseExports]
        entryDone ==
          c.entry # Undef /\ c.entry # i.entry /\
          EntryOf(heap, baseExports) =
            << "webpack-dev-server/client?http://localhost:3000",
               "webpack/hot/only-dev-server", "../assets/js/app.js" >>
        publicPathDone ==
          heap[c.output].publicPath = "http://localhost:3000/assets/bundles/"
        pluginsDone ==
          /\ Len(PluginsOf(heap, baseExports)) = Len(PluginsOf(input, baseExports)) + 3
          /\ PluginsOf(heap, baseExports)[Len(PluginsOf(input, baseExports)) + 3].ctor
               = "BundleTracker"
        rulesUntouched ==
          /\ Untouched("module")
          /\ c.module # Undef => heap[c.module] = input[c.module]
          /\ (c.module # Undef /\ heap[c.module].rules # Undef) =>
               heap[heap[c.module].rules] = input[heap[c.module].rules]
    IN /\ entryDone
       /\ errAt = "publicPath" =>
            /\ Untouched("plugins") /\ Untouched("devtool") /\ rulesUntouched
            /\ c.plugins # Undef => heap[c.plugins] = input[c.plugins]
       /\ errAt = "plugins" =>
            /\ publicPathDone
            /\ Untouched("devtool") /\ rulesUntouched
       /\ errAt = "rules" =>
            /\ publicPathDone
            /\ pluginsDone
            /\ c.devtool = "inline-source-map"
            /\ rulesUntouched
C10_Witness ==
  /\ pc = "error"
  /\ errAt = "rules"
  /\ heap[baseExports].module # Undef
  /\ heap[heap[baseExports].module].rules = Undef
  /\ input[baseExports].devtool = "source-map"
  /\ heap[baseExports].devtool = "inline-source-map"
  /\ Len(PluginsOf(heap, baseExports)) = Len(PluginsOf(input, baseExports)) + 3
  /\ heap[heap[baseExports].output].publicPath = "http://localhost:3000/assets/bundles/"
====
